---- MODULE Spec2Model ----
(***************************************************************************)
(* Model of lego-cam's RecordingController (src/src/lego_cam/controller.py)*)
(* with the Picamera2Recorder it drives                                    *)
(* (src/src/lego_cam/camera/picamera2_recorder.py).                        *)
(*                                                                         *)
(* Time.  Every comparison the controller makes is between a difference of *)
(* two monotonic() readings and a constant (0.5 s debounce, the inactivity *)
(* window).  The model therefore keeps, for each stored timestamp t, the   *)
(* elapsed time monotonic() - t, in ticks of a quarter of a second,        *)
(* saturated at AgeCap (one tick above every constant it is compared to).  *)
(* "last_motion_t = 0" reads "_last_motion_t was set to the current        *)
(* monotonic() reading".                                                   *)
(*                                                                         *)
(* Scheduling.  The loops are asyncio tasks on one event loop: a step of   *)
(* the model runs one task from one suspension point (an await that really *)
(* suspends) to the next.  recorder.start() contains no such await, so an  *)
(* Idle->Recording transition is one step; recorder.stop() suspends on the *)
(* cancelled rotation task and on asyncio.sleep(0.1).                      *)
(***************************************************************************)
EXTENDS Integers, Sequences, FiniteSets, TLC

\* ---------------------------------------------------------------- bounds
\* service.inactivity_seconds of the configuration under check
InactivitySeconds == 1
\* longest time (ticks) the blocking camera bring-up inside recorder.start() takes
MaxStartDelay == 2

\* most directory entries under output_dir
MaxFiles == 2
\* modification times are drawn from 1..MaxMtime
MaxMtime == 2
\* entry sizes, in MB, are drawn from 0..MaxSize
MaxSize == 1
\* service.min_free_mb of the configuration under check
MinFreeMb == 2
\* passes of the simulation loop
MaxSimSteps == 8
\* the pixels detect() samples from one frame: (height / 16) * (width / 16)
SampledPixels == 50
\* a frame's first 0..MaxLit sampled pixels are lit, the others are black
MaxLit == 2
\* the luma of a lit pixel is drawn from 0..MaxLuma
MaxLuma == 2
\* motion.sensitivity is drawn from 0..MaxSensitivity
MaxSensitivity == 1

\* ------------------------------------------------------------- constants
\* the 0.5 s debounce window of _on_motion, in ticks
DebounceTicks == 2
TicksPerSecond == 2 * DebounceTicks
Inactivity == InactivitySeconds * TicksPerSecond
AgeCap == (IF Inactivity > DebounceTicks THEN Inactivity ELSE DebounceTicks) + 1

\* Python's None for an unset timestamp
None == -1

IDLE == "idle"
RECORDING == "recording"

Sources == {"sensor", "camera"}
RotationModes == {"ffmpeg_segment", "rotate"}
\* how a call of Picamera2Recorder.start() can end: it returns ("ok"), or one of
\* its library calls raises: Picamera2() or the import ("camera_error"),
\* configure ("configure_error"), Popen of ffmpeg ("ffmpeg_error"),
\* picam2.start() ("camera_start_error"), picam2.start_recording ("record_error")
StartOutcomes(mode) ==
    IF mode = "ffmpeg_segment"
    THEN {"ok", "camera_error", "configure_error", "ffmpeg_error",
          "camera_start_error", "record_error"}
    ELSE {"ok", "camera_error", "configure_error", "camera_start_error"}

VARIABLES
    \* configuration (fixed by Init)
    rotation_mode,        \* camera.rotation_mode
    vision_enabled,       \* VisionMotionDetector.enabled as computed by __init__
    \* RecordingController
    state,                \* _state
    last_motion_t,        \* _last_motion_t (None, or ticks elapsed since it)
    last_motion_event,    \* _last_motion_event: [source, t]
    \* the task group of run_forever
    run,                  \* "running" | "aborting" | "terminated" | "cancelled"
    pc_state,             \* where _state_loop is suspended
    \* Picamera2Recorder
    rec_running,          \* _running
    picam2,               \* _picam2: "none" | "open" | "started" | "closed"
    rotate_task,          \* _rotate_task: "none" | "alive" | "failed"
    ffmpeg_proc,          \* _ffmpeg_proc is not None
    latest_motion_frame,  \* _latest_motion_frame is not None
    \* history (observes the calls and events; the code has no such fields)
    calls,                \* recorder/storage calls of the current recording cycle
    delivered,            \* the last event handed to _on_motion
    stop_check,           \* elapsed time read by the timeout check that began the last stop
    start_result,         \* how the last recorder.start() ended
    stop_result,          \* how the last recorder.stop() ended
    cam_bit,              \* flips whenever a Camera event resets the timer
    \* StorageManager and the filesystem under output_dir
    files,                \* the directory entries of output_dir
    free_mb,              \* what _free_mb() would return
    sto_pc,               \* ensure_free_space: "idle" | "measure" | "select" | "returned" | "gave_up" | "raised"
    measured,             \* the loop's last measurement, None once it is stale
    deleted,              \* history: the entries this call unlinked, in order
    warned,               \* history: "no files to delete" was logged by this call
    \* ToFSensor (hardware path of events()) and what the controller configures
    alpha_num,            \* smooth_alpha, as a multiple of 1/AlphaDen
    hysteresis_mm,        \* the threshold the configuration asks for
    sen_pc,               \* events(): "off" | "init" | "sampling" | "fatal"
    attempt,              \* the retry loop's attempt number, 0 before the first
    bus,                  \* bus is an open SMBus handle
    tof,                  \* tof.enable() has succeeded
    smoothed_mm,          \* smoothed_mm (None, or 1/Scale mm)
    stable_mm,            \* stable_mm (None, or 1/Scale mm)
    baseline_mm,          \* baseline_mm (None, or 1/Scale mm)
    debug_distance_mm,    \* debug_distance_mm (None, or 1/Scale mm)
    n_samples,            \* history: the calls of tof.measure() so far
    n_events,             \* history: the events yielded so far
    init_failures,        \* history: the attempts that failed
    last_poll,            \* history: the last call of tof.measure() and what came of it
    cal_file,             \* what events() found at calibration_file: [kind, len]
    calibrated,           \* what the sensor was calibrated with: "no" | "file" | "runtime"
    cal_warned,           \* history: the calibration file was skipped with a warning
    \* events() of a second ToFSensor, in simulation mode
    sim_current,          \* current_mm (1/Scale mm)
    sim_stable,           \* stable_mm (1/Scale mm)
    sim_fired,            \* history: the last pass of the simulation loop yielded True
    \* the environment the service is started in, and the startup itself
    env,                  \* backend, picamera2/ffmpeg/sensor driver installed, sensor.simulate
    boot,                 \* "new" | "fatal" (__init__ raised) | "running" (run_forever entered)
    journal,              \* the last line the status loops wrote to the log
    \* the frame slot of Picamera2Recorder and VisionMotionDetector, frame by frame
    slot,                 \* the frame held in _latest_motion_frame (None, or its number)
    produced,             \* history: the last frame _pre_callback got from make_array
    lock,                 \* _motion_frame_lock is held
    vis_pc,               \* the vision loop: "sleep" | "locked" (inside get_motion_frame)
    vis_last_t,           \* ticks elapsed since VisionMotionDetector._last_t, up to VisionPeriod
    prev_small,           \* the frame _prev_small was taken from (None, or its number)
    detected,             \* history: the last call of detect() and its result
    vis_turn,             \* history: the last get_motion_frame() of the vision loop: what it
                          \* returned and whether the turn made a camera event
    cam_pc,               \* the caller of start()/stop(): "idle" | "stop_rotate" | "stop_sleep"
    cam_call,             \* history: the last call of start() or stop(), and whether the
                          \* frames in the slot and in _prev_small were captured before
                          \* the last start() that brought the camera up (where followed)
    \* frames by their pixels, for VisionMotionDetector.detect
    pixels,               \* the luma array "gray" of each numbered frame
    sensitivity,          \* VisionMotionDetector.sensitivity
    seen                  \* history: the last detect() on pixels: its frame, whether numpy
                          \* was there, what _prev_small was

ctl_vars == <<rotation_mode, vision_enabled, state, last_motion_t, last_motion_event,
              run, pc_state, rec_running, picam2, rotate_task, ffmpeg_proc,
              latest_motion_frame, calls, delivered, stop_check, start_result,
              stop_result, cam_bit>>

sto_vars == <<files, free_mb, sto_pc, measured, deleted, warned>>

sen_vars == <<alpha_num, hysteresis_mm, sen_pc, attempt, bus, tof, smoothed_mm,
              stable_mm, baseline_mm, debug_distance_mm, n_samples, n_events,
              init_failures, last_poll, cal_file, calibrated, cal_warned,
              sim_current, sim_stable, sim_fired>>

sim_vars == <<sim_current, sim_stable, sim_fired>>

boot_vars == <<env, boot, journal>>

cam_vars == <<slot, produced, lock, vis_pc, vis_last_t, prev_small, detected,
              vis_turn, cam_pc, cam_call>>

pix_vars == <<pixels, sensitivity, seen>>

vars == <<ctl_vars, sto_vars, sen_vars, boot_vars, cam_vars, pix_vars>>

\* what the steps of one component leave alone
not_ctl == <<sto_vars, sen_vars, boot_vars, cam_vars, pix_vars>>

not_sto == <<ctl_vars, sen_vars, boot_vars, cam_vars, pix_vars>>

not_sen == <<ctl_vars, sto_vars, boot_vars, cam_vars, pix_vars>>

config == <<rotation_mode, vision_enabled>>
recorder == <<rec_running, picam2, rotate_task, ffmpeg_proc>>

\* ---------------------------------------------------------------- helpers
Min(a, b) == IF a < b THEN a ELSE b

Abs(x) == IF x < 0 THEN 0 - x ELSE x

\* a stored timestamp after d more ticks have passed
Aged(t, d) == IF t = None THEN None ELSE Min(t + d, AgeCap)

MotionEvent(source, t) == [source |-> source, t |-> t]

NoEvent == [source |-> "none", t |-> None]

TypeOK ==
    /\ rotation_mode \in RotationModes
    /\ vision_enabled \in BOOLEAN
    /\ state \in {IDLE, RECORDING}
    /\ last_motion_t \in {None} \cup (0..AgeCap)
    /\ last_motion_event \in [source : Sources \cup {"none"}, t : {None} \cup (0..AgeCap)]
    /\ run \in {"running", "aborting", "terminated", "cancelled"}
    /\ pc_state \in {"sleep", "stop_rotate", "stop_sleep", "failed"}
    /\ rec_running \in BOOLEAN
    /\ picam2 \in {"none", "open", "started", "closed"}
    /\ rotate_task \in {"none", "alive", "failed"}
    /\ ffmpeg_proc \in BOOLEAN
    /\ latest_motion_frame \in BOOLEAN
    /\ delivered \in [seq : {0, 1}, source : Sources \cup {"none"},
                      t : {None} \cup (0..AgeCap), discarded : BOOLEAN]
    /\ stop_check \in {None} \cup (0..AgeCap)
    /\ start_result \in {"none", "ok", "failed"}
    /\ stop_result \in {"none", "ok", "raised"}
    /\ cam_bit \in {0, 1}

\* __init__ and the first line of run_forever: Idle, no timestamps, recorder built
\* but not started
CtlInit(modes) ==
    /\ rotation_mode \in modes
    /\ vision_enabled \in BOOLEAN
    /\ state = IDLE
    /\ last_motion_t = None
    /\ last_motion_event = NoEvent
    /\ run = "running"
    /\ pc_state = "sleep"
    /\ rec_running = FALSE
    /\ picam2 = "none"
    /\ rotate_task = "none"
    /\ ffmpeg_proc = FALSE
    /\ latest_motion_frame = FALSE
    /\ calls = <<>>
    /\ delivered = [seq |-> 0, source |-> "none", t |-> None, discarded |-> FALSE]
    /\ stop_check = None
    /\ start_result = "none"
    /\ stop_result = "none"
    /\ cam_bit = 0

\* the storage side at rest: an empty output_dir, ensure_free_space not running
StoAtRest ==
    /\ files = {}
    /\ free_mb = 0
    /\ sto_pc = "idle"
    /\ measured = None
    /\ deleted = <<>>
    /\ warned = FALSE

\* smooth_alpha is a multiple of 1/AlphaDen; AlphaOff is smooth_alpha = 0
AlphaDen == 2

AlphaOff == 0

\* the threshold events() compares with
HardcodedHysteresis == 40

\* what the controller hands to ToFSensor(...): smooth_alpha and hysteresis_mm
SenConfig(alphas, thresholds) ==
    /\ alpha_num \in alphas
    /\ hysteresis_mm \in thresholds

\* the sensor side at rest: events() not entered
SenAtRest ==
    /\ sen_pc = "off"
    /\ attempt = 0
    /\ bus = FALSE
    /\ tof = FALSE
    /\ smoothed_mm = None
    /\ stable_mm = None
    /\ baseline_mm = None
    /\ debug_distance_mm = None
    /\ n_samples = 0
    /\ n_events = 0
    /\ init_failures = 0
    /\ last_poll = [outcome |-> "none", confidence |-> None, valid |-> FALSE,
                    raw |-> None, fired |-> FALSE]
    /\ cal_file = [kind |-> "unread", len |-> 0]
    /\ calibrated = "no"
    /\ cal_warned = FALSE
    /\ sim_current = None
    /\ sim_stable = None
    /\ sim_fired = FALSE

\* an environment in which every check of __init__ passes and the sensor works
GoodEnv ==
    [backend |-> "picamera2", picamera2 |-> TRUE, ffmpeg |-> TRUE, driver |-> TRUE,
     simulate |-> FALSE]

MaxFrames == 2

\* motion.vision_motion_fps of the configuration under check
SampleFps == 2

FrameIds == 1..MaxFrames

\* 1.0 / sample_fps, in ticks
VisionPeriod == TicksPerSecond \div SampleFps

\* no call of start() or stop() yet; the age of the stored frames is not followed
NoCall == [seq |-> 0, op |-> "none", was_running |-> FALSE, followed |-> FALSE,
           slot_old |-> FALSE, prev_old |-> FALSE]

\* the frame side at rest: no frame yet, the lock free, _last_t = 0.0 long ago
CamAtRest ==
    /\ slot = None
    /\ produced = None
    /\ lock = FALSE
    /\ vis_pc = "sleep"
    /\ vis_last_t = VisionPeriod
    /\ prev_small = None
    /\ detected = [seq |-> 0, result |-> FALSE, limited |-> FALSE]
    /\ vis_turn = [seq |-> 0, frame |-> None, event |-> FALSE]
    /\ cam_pc = "idle"
    /\ cam_call = NoCall

\* nothing logged by the status loops yet
NoLine == [seq |-> 0, loop |-> "none", state |-> "none", distance |-> None]

\* no detect() on pixels yet
NoDetect == [frame |-> None, np |-> FALSE, prev |-> None]

\* frames whose pixels are not looked at: all black
PixAtRest ==
    /\ pixels = [f \in 1..MaxFrames |-> [lit |-> 0, luma |-> 0]]
    /\ sensitivity = 0
    /\ seen = NoDetect

\* __init__ has returned and run_forever has been entered
Booted ==
    /\ env = GoodEnv
    /\ boot = "running"
    /\ journal = NoLine
    /\ CamAtRest
    /\ PixAtRest

Init ==
    /\ CtlInit(RotationModes)
    /\ StoAtRest
    /\ SenAtRest
    /\ SenConfig({AlphaOff}, {HardcodedHysteresis})
    /\ Booted

\* ------------------------------------------------------ Picamera2Recorder
\* mutant: start() goes through the bring-up whether running or not
StartIsNoOpNever == FALSE

\* the first test of start()
StartIsNoOp == rec_running

\* start(): returns at once when already running; otherwise the fields are
\* assigned in program order up to the call that raises
RecorderStart(outcome) ==
    IF StartIsNoOp
    THEN UNCHANGED recorder
    ELSE /\ rec_running' = (outcome = "ok")
         /\ picam2' = CASE outcome = "camera_error" -> picam2
                        [] outcome \in {"configure_error", "ffmpeg_error",
                                        "camera_start_error"} -> "open"
                        [] OTHER -> "started"
         /\ ffmpeg_proc' = IF /\ rotation_mode = "ffmpeg_segment"
                              /\ outcome \in {"camera_start_error", "record_error", "ok"}
                           THEN TRUE
                           ELSE ffmpeg_proc
         /\ rotate_task' = IF rotation_mode = "rotate" /\ outcome = "ok"
                           THEN "alive"
                           ELSE rotate_task

\* what the caller of start() sees
StartReturns(outcome) == rec_running \/ outcome = "ok"

\* _pre_callback, run by the camera driver's thread while the camera is started
PreCallback ==
    /\ UNCHANGED not_ctl
    /\ picam2 = "started"
    /\ latest_motion_frame' = TRUE
    /\ UNCHANGED <<config, state, last_motion_t, last_motion_event, run, pc_state,
                   recorder, calls, delivered, stop_check, start_result,
                   stop_result, cam_bit>>

\* get_motion_frame(): a frame only while running
GetMotionFrame == IF rec_running THEN latest_motion_frame ELSE FALSE

\* the rotation task dies with the exception of a picam2.start_recording call
RotatorFail ==
    /\ UNCHANGED not_ctl
    /\ rotate_task = "alive"
    /\ rec_running
    /\ rotate_task' = "failed"
    /\ UNCHANGED <<config, state, last_motion_t, last_motion_event, run, pc_state,
                   rec_running, picam2, ffmpeg_proc, latest_motion_frame, calls,
                   delivered, stop_check, start_result, stop_result, cam_bit>>

\* ---------------------------------------------------- RecordingController
\* _on_motion's debounce test on _last_motion_t, for an event stamped now
Debounced(lmt) == lmt # None /\ lmt < DebounceTicks

\* mutant: an accepted event starts the recorder in either state
StartsRecordingAlways(st) == TRUE

\* _on_motion's branch on the state: an accepted event starts a recording
StartsRecording(st) == st = IDLE

\* mutant: every source resets the inactivity timer
ExtendsTimerAny(source) == TRUE

\* mutant: the sources are swapped, the sensor resets the timer
ExtendsTimerSensor(source) == source = "sensor"

\* _on_motion while Recording: which sources reset the inactivity timer
ExtendsTimer(source) == source = "camera"

\* mutant: the timeout fires a tick early
TimedOutEarly(lmt) == lmt >= Inactivity - 1

\* _state_loop's timeout test
TimedOut(lmt) == lmt >= Inactivity

\* mutant: the start error is logged and dropped
StartErrorDropped == FALSE

\* _start_recording re-raises what recorder.start() raised
StartErrorPropagates == TRUE

\* mutant: the stop error is re-raised
StopErrorRaised == FALSE

\* _stop_recording logs and drops what recorder.stop() raised
StopErrorSwallowed == TRUE

\* mutant: the recorder is started before the retention check
CallsStartFirst ==
    IF state = IDLE
    THEN <<"start", "ensure_free_space">>
    ELSE calls \o <<"start", "ensure_free_space">>

\* the calls history across _start_recording: a start issued from Idle opens a cycle
CallsAfterStart ==
    IF state = IDLE
    THEN <<"ensure_free_space", "start">>
    ELSE calls \o <<"ensure_free_space", "start">>

\* _on_motion(MotionEvent(source, monotonic())), with _start_recording inlined;
\* d is the time the synchronous recorder.start() blocks the event loop
OnMotion(source) ==
    IF Debounced(last_motion_t)
    THEN /\ delivered' = [seq |-> 1 - delivered.seq, source |-> source, t |-> 0,
                          discarded |-> TRUE]
         /\ UNCHANGED <<config, state, last_motion_t, last_motion_event, run,
                        pc_state, recorder, latest_motion_frame, calls,
                        stop_check, start_result, stop_result, cam_bit>>
    ELSE IF StartsRecording(state)
    THEN \E d \in 0..MaxStartDelay, outcome \in StartOutcomes(rotation_mode) :
         /\ delivered' = [seq |-> 1 - delivered.seq, source |-> source, t |-> d,
                          discarded |-> FALSE]
         /\ last_motion_event' = MotionEvent(source, d)
         /\ calls' = CallsAfterStart
         /\ RecorderStart(outcome)
         /\ stop_result' = "none"
         /\ stop_check' = None
         /\ IF StartReturns(outcome)
            THEN /\ start_result' = "ok"
                 /\ state' = RECORDING
                 /\ last_motion_t' = 0
                 /\ run' = run
            ELSE /\ start_result' = "failed"
                 /\ state' = state
                 /\ last_motion_t' = d
                 /\ run' = IF StartErrorPropagates THEN "aborting" ELSE run
         /\ UNCHANGED <<config, pc_state, latest_motion_frame, cam_bit>>
    ELSE /\ delivered' = [seq |-> 1 - delivered.seq, source |-> source, t |-> 0,
                          discarded |-> FALSE]
         /\ last_motion_event' = MotionEvent(source, 0)
         /\ last_motion_t' = IF ExtendsTimer(source) THEN 0 ELSE last_motion_t
         /\ cam_bit' = IF source = "camera" THEN 1 - cam_bit ELSE cam_bit
         /\ UNCHANGED <<config, state, run, pc_state, recorder, latest_motion_frame,
                        calls, stop_check, start_result, stop_result>>

\* events() can yield at all: it simulates, or it could import the driver
\* (without the driver it logs an error and sleeps for ever)
SensorAvailable == env.simulate \/ env.driver

\* one turn of _sensor_loop in which the sensor yields True
SensorLoop ==
    /\ UNCHANGED not_ctl
    /\ run = "running"
    /\ SensorAvailable
    /\ OnMotion("sensor")

\* mutant: the vision loop samples the frame slot in any state
CameraEventAnyState(motion) == vision_enabled /\ latest_motion_frame /\ motion

\* mutant: the vision loop does not look at the detector's enabled flag
CameraEventVisionOff(motion) == state = RECORDING /\ GetMotionFrame /\ motion

\* the tests of _camera_motion_loop before it emits a Camera event: Recording,
\* vision enabled, a frame from the recorder, and detect's verdict on it
CameraEventEmitted(motion) ==
    state = RECORDING /\ vision_enabled /\ GetMotionFrame /\ motion

\* one turn of _camera_motion_loop; detect's verdict on the frame is the input
CameraMotionLoop ==
    /\ UNCHANGED not_ctl
    /\ run \in {"running", "aborting"}
    /\ \E motion \in BOOLEAN :
         IF CameraEventEmitted(motion)
         THEN OnMotion("camera")
         ELSE UNCHANGED vars

\* mutant: the timer is cleared and the state is left as it is
StopRecordingTailTimerOnly(c) ==
    /\ calls' = Append(c, "ensure_free_space")
    /\ state' = state
    /\ last_motion_t' = None
    /\ pc_state' = "sleep"

\* _stop_recording after recorder.stop() is over: retention, Idle, timer cleared
StopRecordingTail(c) ==
    /\ calls' = Append(c, "ensure_free_space")
    /\ state' = IDLE
    /\ last_motion_t' = None
    /\ pc_state' = "sleep"

\* recorder.stop() from the camera release on: with a camera handle it closes
\* the camera and suspends in asyncio.sleep(0.1); without one it runs to its end
StopReleaseCamera(c) ==
    IF picam2 # "none"
    THEN /\ picam2' = "closed"
         /\ pc_state' = "stop_sleep"
         /\ calls' = c
         /\ UNCHANGED <<ffmpeg_proc, state, last_motion_t, stop_result>>
    ELSE /\ picam2' = "none"
         /\ ffmpeg_proc' = FALSE
         /\ stop_result' = "ok"
         /\ StopRecordingTail(c)

\* _stop_recording up to the first suspension of recorder.stop()
BeginStop ==
    LET c == Append(calls, "stop") IN
    IF ~rec_running
    THEN /\ stop_result' = "ok"
         /\ StopRecordingTail(c)
         /\ UNCHANGED <<recorder, run>>
    ELSE /\ rec_running' = FALSE
         /\ CASE rotate_task = "alive" ->
                   \* cancel() and suspend until the rotation task has ended
                   /\ pc_state' = "stop_rotate"
                   /\ calls' = c
                   /\ UNCHANGED <<rotate_task, picam2, ffmpeg_proc, state,
                                  last_motion_t, stop_result, run>>
              [] rotate_task = "failed" ->
                   \* awaiting the dead task re-raises its exception
                   /\ stop_result' = "raised"
                   /\ UNCHANGED <<rotate_task, picam2, ffmpeg_proc>>
                   /\ IF StopErrorSwallowed
                      THEN StopRecordingTail(c) /\ run' = run
                      ELSE /\ calls' = c
                           /\ pc_state' = "failed"
                           /\ run' = "aborting"
                           /\ UNCHANGED <<state, last_motion_t>>
              [] OTHER ->
                   /\ StopReleaseCamera(c)
                   /\ UNCHANGED <<rotate_task, run>>

\* one turn of _state_loop after its sleep(0.2)
StateLoopCheck ==
    /\ UNCHANGED not_ctl
    /\ run \in {"running", "aborting"}
    /\ pc_state = "sleep"
    /\ IF state = IDLE \/ last_motion_t = None \/ ~TimedOut(last_motion_t)
       THEN UNCHANGED vars
       ELSE /\ stop_check' = last_motion_t
            /\ BeginStop
            /\ UNCHANGED <<config, last_motion_event, latest_motion_frame,
                           delivered, start_result, cam_bit>>

\* recorder.stop() resumes: the cancelled rotation task has ended
StopAfterRotate ==
    /\ UNCHANGED not_ctl
    /\ run \in {"running", "aborting"}
    /\ pc_state = "stop_rotate"
    /\ rotate_task' = "none"
    /\ StopReleaseCamera(calls)
    /\ UNCHANGED <<config, last_motion_event, run, rec_running,
                   latest_motion_frame, delivered, stop_check, start_result,
                   cam_bit>>

\* recorder.stop() resumes after sleep(0.1) and returns; _stop_recording ends
StopAfterSleep ==
    /\ UNCHANGED not_ctl
    /\ run \in {"running", "aborting"}
    /\ pc_state = "stop_sleep"
    /\ picam2' = "none"
    /\ ffmpeg_proc' = FALSE
    /\ stop_result' = "ok"
    /\ StopRecordingTail(calls)
    /\ UNCHANGED <<config, last_motion_event, run, rec_running, rotate_task,
                   latest_motion_frame, delivered, stop_check, start_result,
                   cam_bit>>

\* the TaskGroup of run_forever: a failed task cancels its siblings and
\* run_forever raises
TaskGroupAbort ==
    /\ UNCHANGED not_ctl
    /\ run = "aborting"
    /\ run' = "terminated"
    /\ UNCHANGED <<config, state, last_motion_t, last_motion_event, pc_state,
                   recorder, latest_motion_frame, calls, delivered, stop_check,
                   start_result, stop_result, cam_bit>>

\* a quarter of a second passes
Tick ==
    /\ UNCHANGED not_ctl
    /\ last_motion_t' = Aged(last_motion_t, 1)
    /\ last_motion_event' = [last_motion_event EXCEPT !.t = Aged(@, 1)]
    /\ delivered' = [delivered EXCEPT !.t = Aged(@, 1)]
    /\ UNCHANGED <<config, state, run, pc_state, recorder, latest_motion_frame,
                   calls, stop_check, start_result, stop_result, cam_bit>>

StateLoop == StateLoopCheck \/ StopAfterRotate \/ StopAfterSleep

Next ==
    \/ SensorLoop
    \/ CameraMotionLoop
    \/ StateLoop
    \/ TaskGroupAbort
    \/ PreCallback
    \/ RotatorFail
    \/ Tick

Spec == Init /\ [][Next]_vars

\* the event loop keeps running ready tasks and callbacks, and time passes
FairSpec ==
    /\ Spec
    /\ WF_vars(Tick)
    /\ WF_vars(StateLoop)
    /\ WF_vars(TaskGroupAbort)

\* ------------------------------------------------------------ cancellation
\* main._main_task on SIGINT/SIGTERM: runner.cancel() cancels run_forever, whose
\* TaskGroup cancels the loops. The sensor loop is suspended inside events(),
\* whose finally clause puts the sensor in standby and closes the bus; nothing
\* else runs on the way out.
Cancel ==
    /\ run = "running"
    /\ run' = "cancelled"
    /\ bus' = FALSE
    /\ tof' = FALSE
    /\ UNCHANGED <<config, state, last_motion_t, last_motion_event, pc_state,
                   recorder, latest_motion_frame, calls, delivered, stop_check,
                   start_result, stop_result, cam_bit>>
    /\ UNCHANGED <<sto_vars, boot_vars, cam_vars, pix_vars>>
    /\ UNCHANGED <<alpha_num, hysteresis_mm, sen_pc, attempt, smoothed_mm, stable_mm,
                   baseline_mm, debug_distance_mm, n_samples, n_events,
                   init_failures, last_poll, cal_file, calibrated, cal_warned,
                   sim_vars>>

CancelNext == Next \/ Cancel

CancelSpec == Init /\ [][CancelNext]_vars

\* ----------------------------------------------------------------- startup
\* the environments the service can be started in
Envs ==
    [backend : {"picamera2", "other"}, picamera2 : BOOLEAN, ffmpeg : BOOLEAN,
     driver : BOOLEAN, simulate : BOOLEAN]

\* _validate_environment returns: the backend is picamera2, picamera2 can be
\* imported, and ffmpeg is on the path when the mode pipes to it
ValidateEnvironment(e, mode) ==
    /\ e.backend = "picamera2"
    /\ e.picamera2
    /\ mode = "ffmpeg_segment" => e.ffmpeg

\* main._run is about to build the controller
StartupInit ==
    /\ CtlInit(RotationModes)
    /\ StoAtRest
    /\ SenAtRest
    /\ SenConfig({AlphaOff}, {HardcodedHysteresis})
    /\ env \in Envs
    /\ boot = "new"
    /\ journal = NoLine
    /\ CamAtRest
    /\ PixAtRest

\* RecordingController(config, storage), then run_forever() if it returned
Construct ==
    /\ boot = "new"
    /\ boot' = IF ValidateEnvironment(env, rotation_mode) THEN "running" ELSE "fatal"
    /\ UNCHANGED <<ctl_vars, sto_vars, sen_vars, cam_vars, pix_vars, env, journal>>

\* the loops of run_forever
Running ==
    /\ boot = "running"
    /\ Next

StartupNext == Construct \/ Running

StartupSpec == StartupInit /\ [][StartupNext]_vars

\* ------------------------------------------------- frames and vision motion
\* Picamera2Recorder and VisionMotionDetector frame by frame: start() and stop()
\* called in any order by a caller that sets _state as _start_recording and
\* _stop_recording do, the camera thread's _pre_callback, and the vision loop.
\* Frames are numbered; two frames with one number have the same pixels. The
\* tasks of the event loop take their steps while the vision loop is suspended
\* (vis_pc = "sleep"); only the camera thread runs at any time.
\* the controller fields the frame side leaves alone
ctl_rest == <<config, last_motion_t, last_motion_event, run, pc_state, calls,
              delivered, stop_check, start_result, stop_result, cam_bit>>

not_cam == <<sto_vars, sen_vars, boot_vars, pix_vars, ctl_rest>>

CamInit == Init

\* recorder.start() is called
CamStart(outcome) ==
    /\ vis_pc = "sleep"
    /\ cam_pc = "idle"
    /\ cam_call' = [seq |-> 1 - cam_call.seq, op |-> "start", was_running |-> rec_running,
                    followed |-> cam_call.followed,
                    slot_old |-> IF cam_call.followed /\ ~StartIsNoOp /\ outcome = "ok"
                                 THEN slot # None ELSE cam_call.slot_old,
                    prev_old |-> IF cam_call.followed /\ ~StartIsNoOp /\ outcome = "ok"
                                 THEN prev_small # None ELSE cam_call.prev_old]
    /\ RecorderStart(outcome)
    /\ state' = IF StartReturns(outcome) THEN RECORDING ELSE state
    /\ UNCHANGED <<not_cam, latest_motion_frame, slot, produced, lock, vis_pc,
                   vis_last_t, prev_small, detected, vis_turn, cam_pc>>

\* mutant: stop() goes through the release whether running or not
StopIsNoOpNever == FALSE

\* the first test of stop()
StopIsNoOp == ~rec_running

\* stop() from the camera release on: with a camera handle it closes the camera
\* and suspends in asyncio.sleep(0.1); without one it runs to its end
ReleaseCamera ==
    IF picam2 # "none"
    THEN /\ picam2' = "closed"
         /\ cam_pc' = "stop_sleep"
         /\ UNCHANGED <<ffmpeg_proc, state>>
    ELSE /\ picam2' = "none"
         /\ ffmpeg_proc' = FALSE
         /\ cam_pc' = "idle"
         /\ state' = IDLE

\* recorder.stop() is called, up to its first suspension
CamStop ==
    /\ vis_pc = "sleep"
    /\ cam_pc = "idle"
    /\ cam_call' = [cam_call EXCEPT !.seq = 1 - cam_call.seq, !.op = "stop",
                                    !.was_running = rec_running]
    /\ IF StopIsNoOp
       THEN /\ state' = IDLE
            /\ UNCHANGED <<recorder, cam_pc>>
       ELSE /\ rec_running' = FALSE
            /\ CASE rotate_task = "alive" ->
                      /\ cam_pc' = "stop_rotate"
                      /\ UNCHANGED <<rotate_task, picam2, ffmpeg_proc, state>>
                 [] rotate_task = "failed" ->
                      \* awaiting the dead task re-raises; the caller logs it
                      /\ state' = IDLE
                      /\ UNCHANGED <<rotate_task, picam2, ffmpeg_proc, cam_pc>>
                 [] OTHER ->
                      /\ ReleaseCamera
                      /\ UNCHANGED rotate_task
    /\ UNCHANGED <<not_cam, latest_motion_frame, slot, produced, lock, vis_pc,
                   vis_last_t, prev_small, detected, vis_turn>>

\* stop() resumes: the cancelled rotation task has ended
CamStopAfterRotate ==
    /\ vis_pc = "sleep"
    /\ cam_pc = "stop_rotate"
    /\ rotate_task' = "none"
    /\ ReleaseCamera
    /\ UNCHANGED <<not_cam, rec_running, latest_motion_frame, slot, produced, lock,
                   vis_pc, vis_last_t, prev_small, detected, vis_turn, cam_call>>

\* stop() resumes after sleep(0.1) and returns
CamStopAfterSleep ==
    /\ vis_pc = "sleep"
    /\ cam_pc = "stop_sleep"
    /\ picam2' = "none"
    /\ ffmpeg_proc' = FALSE
    /\ cam_pc' = "idle"
    /\ state' = IDLE
    /\ UNCHANGED <<not_cam, rec_running, rotate_task, latest_motion_frame, slot,
                   produced, lock, vis_pc, vis_last_t, prev_small, detected,
                   vis_turn, cam_call>>

\* mutant: a frame that arrives while the lock is held is dropped
SlotWritableUnlocked(l) == ~l

\* _pre_callback stores the frame whatever the lock's state
SlotWritable(l) == TRUE

\* _pre_callback(request) on the camera thread, for frame f; ok is whether
\* request.make_array returned
CamPreCallback(f, ok) ==
    /\ picam2 = "started"
    /\ IF ok
       THEN /\ produced' = f
            /\ IF SlotWritable(lock)
               THEN /\ slot' = f
                    /\ latest_motion_frame' = TRUE
                    /\ cam_call' = [cam_call EXCEPT !.slot_old = FALSE]
               ELSE UNCHANGED <<slot, latest_motion_frame, cam_call>>
       ELSE UNCHANGED <<produced, slot, latest_motion_frame, cam_call>>
    /\ UNCHANGED <<not_cam, state, recorder, lock, vis_pc, vis_last_t,
                   prev_small, detected, vis_turn, cam_pc>>

\* mutant: detect evaluates every frame
RateLimitedNever(age) == FALSE

\* detect's rate limit: (now - _last_t) < 1.0 / sample_fps
RateLimited(age) == age < VisionPeriod

\* mutant: a frame is stored only after a comparison
NextPreviousIfCompared(prev, f) == IF prev = None THEN None ELSE f

\* _prev_small = gray, on the first-frame branch and after the comparison
NextPrevious(prev, f) == f

\* detect(frame f): np is whether numpy can be imported, motion whether more
\* than 2% of the pixels differ by more than the sensitivity (possible only
\* between frames that differ)
Detect(f, np, motion) ==
    LET noop == ~vision_enabled \/ RateLimited(vis_last_t)
        result == ~noop /\ np /\ prev_small # None /\ prev_small # f /\ motion
    IN  /\ vis_last_t' = IF noop THEN vis_last_t ELSE 0
        /\ prev_small' = IF noop \/ ~np THEN prev_small ELSE NextPrevious(prev_small, f)
        /\ detected' = [seq |-> 1 - detected.seq, result |-> result,
                        limited |-> RateLimited(vis_last_t)]

\* detect() gets as far as _prev_small = gray
Stores(np) == vision_enabled /\ ~RateLimited(vis_last_t) /\ np

\* detect(frame) called on its own
VisionDetect(f, np, motion) ==
    /\ vis_pc = "sleep"
    /\ Detect(f, np, motion)
    /\ cam_call' = [cam_call EXCEPT !.prev_old = IF Stores(np) THEN FALSE ELSE @]
    /\ UNCHANGED <<not_cam, state, recorder, latest_motion_frame, slot, produced,
                   lock, vis_pc, vis_turn, cam_pc>>

\* a turn of _camera_motion_loop up to the lock of get_motion_frame
VisionAcquire ==
    /\ vis_pc = "sleep"
    /\ IF state # RECORDING \/ ~vision_enabled
       THEN UNCHANGED <<lock, vis_pc, vis_turn>>
       ELSE IF ~rec_running
       THEN /\ vis_turn' = [seq |-> 1 - vis_turn.seq, frame |-> None, event |-> FALSE]
            /\ UNCHANGED <<lock, vis_pc>>
       ELSE /\ lock' = TRUE
            /\ vis_pc' = "locked"
            /\ UNCHANGED vis_turn
    /\ UNCHANGED <<not_cam, state, recorder, latest_motion_frame, slot, produced,
                   vis_last_t, prev_small, detected, cam_pc, cam_call>>

\* the rest of the turn: the slot is read under the lock, and a frame goes
\* to detect, whose True makes a camera event
VisionRead(np, motion) ==
    /\ vis_pc = "locked"
    /\ lock' = FALSE
    /\ vis_pc' = "sleep"
    /\ IF slot = None
       THEN /\ vis_turn' = [seq |-> 1 - vis_turn.seq, frame |-> None, event |-> FALSE]
            /\ UNCHANGED <<vis_last_t, prev_small, detected, cam_call>>
       ELSE /\ Detect(slot, np, motion)
            /\ vis_turn' = [seq |-> 1 - vis_turn.seq, frame |-> slot,
                            event |-> detected'.result]
            /\ cam_call' = [cam_call EXCEPT
                                !.prev_old = IF Stores(np) THEN cam_call.slot_old ELSE @]
    /\ UNCHANGED <<not_cam, state, recorder, latest_motion_frame, slot, produced,
                   cam_pc>>

\* a quarter of a second passes
CamTick ==
    /\ vis_last_t' = Min(vis_last_t + 1, VisionPeriod)
    /\ UNCHANGED <<ctl_vars, sto_vars, sen_vars, boot_vars, pix_vars, slot, produced,
                   lock, vis_pc, prev_small, detected, vis_turn, cam_pc, cam_call>>

\* the rotation task dies; like every task it runs only while the vision loop
\* is suspended
CamRotatorFail ==
    /\ vis_pc = "sleep"
    /\ RotatorFail

CamNext ==
    \/ \E outcome \in StartOutcomes(rotation_mode) : CamStart(outcome)
    \/ CamStop
    \/ CamStopAfterRotate
    \/ CamStopAfterSleep
    \/ CamRotatorFail
    \/ \E f \in FrameIds, ok \in BOOLEAN : CamPreCallback(f, ok)
    \/ \E f \in FrameIds, np \in BOOLEAN, motion \in BOOLEAN : VisionDetect(f, np, motion)
    \/ VisionAcquire
    \/ \E np \in BOOLEAN, motion \in BOOLEAN : VisionRead(np, motion)
    \/ CamTick

CameraSpec == CamInit /\ [][CamNext]_vars

\* the same, with vision motion enabled and the age of the stored frames followed
SessionInit ==
    /\ CtlInit(RotationModes)
    /\ vision_enabled
    /\ StoAtRest
    /\ SenAtRest
    /\ SenConfig({AlphaOff}, {HardcodedHysteresis})
    /\ env = GoodEnv
    /\ boot = "running"
    /\ journal = NoLine
    /\ PixAtRest
    /\ slot = None
    /\ produced = None
    /\ lock = FALSE
    /\ vis_pc = "sleep"
    /\ vis_last_t = VisionPeriod
    /\ prev_small = None
    /\ detected = [seq |-> 0, result |-> FALSE, limited |-> FALSE]
    /\ vis_turn = [seq |-> 0, frame |-> None, event |-> FALSE]
    /\ cam_pc = "idle"
    /\ cam_call = [NoCall EXCEPT !.followed = TRUE]

SessionSpec == SessionInit /\ [][CamNext]_vars

\* -------------------------------------------------- detect(), pixel by pixel
\* detect() on frames given by their sampled luma array (gray, after the
\* [::16, ::16] downsampling and the RGB weighting, taken as whole numbers).
\* the 2% of "moving > 0.02"
MotionPercent == 2

\* the luma arrays: the first lit pixels have the luma luma, the others 0 (an
\* array without a lit pixel is written once, with luma 0)
Grays == {g \in [lit : 0..MaxLit, luma : 0..MaxLuma] : (g.lit = 0) <=> (g.luma = 0)}

\* an order on luma arrays, used only to pick one numbering of the frames
GrayRank(g) == g.lit * (MaxLuma + 1) + g.luma

\* the frames detect() can be called with, in any order; of the numberings of
\* the same arrays one is kept
Films ==
    {p \in [FrameIds -> Grays] :
        \A i \in FrameIds \ {MaxFrames} : GrayRank(p[i]) <= GrayRank(p[i + 1])}

\* gray[i]
Pixel(g, i) == IF i <= g.lit THEN g.luma ELSE 0

\* mutant: a difference equal to the sensitivity counts
DiffersAtLeast(x, y) == Abs(x - y) >= sensitivity

\* diff > thresh for one pixel: diff = np.abs(gray - _prev_small), thresh = sensitivity
Differs(x, y) == Abs(x - y) > sensitivity

\* (diff > thresh).sum(): .mean() is this over SampledPixels
Moving(a, b) == Cardinality({i \in 1..SampledPixels : Differs(Pixel(a, i), Pixel(b, i))})

\* moving > 0.02 for frame f against the stored frame prev
MotionBetween(prev, f) ==
    /\ prev # None
    /\ 100 * Moving(pixels[prev], pixels[f]) > MotionPercent * SampledPixels

\* a detector of any sensitivity, enabled or not, and frames of any pixels
VisionInit ==
    /\ CtlInit({"ffmpeg_segment"})
    /\ StoAtRest
    /\ SenAtRest
    /\ SenConfig({AlphaOff}, {HardcodedHysteresis})
    /\ env = GoodEnv
    /\ boot = "running"
    /\ journal = NoLine
    /\ CamAtRest
    /\ pixels \in Films
    /\ sensitivity \in 0..MaxSensitivity
    /\ seen = NoDetect

\* detect(frame f)
DetectFrame(f, np) ==
    /\ Detect(f, np, MotionBetween(prev_small, f))
    /\ seen' = [frame |-> f, np |-> np, prev |-> prev_small]
    /\ UNCHANGED <<ctl_vars, sto_vars, sen_vars, boot_vars, pixels, sensitivity,
                   slot, produced, lock, vis_pc, vis_turn, cam_pc, cam_call>>

VisionNext ==
    \/ \E f \in FrameIds, np \in BOOLEAN : DetectFrame(f, np)
    \/ CamTick

VisionSpec == VisionInit /\ [][VisionNext]_vars

\* ---------------------------------------------------------- StorageManager
FileIds == 1..MaxFiles

\* a name without an entry
Absent == [kind |-> "absent", ext |-> "mp4", mtime |-> 1, size |-> 0]

\* what a name under output_dir can be: a regular file or a directory, with
\* an extension, a modification time and a size in MB
Entries ==
    [kind : {"file", "dir"}, ext : {"mp4", "h264"}, mtime : 1..MaxMtime,
     size : 0..MaxSize] \cup {Absent}

\* Picamera2Recorder._segment_path: the extension of the segments a mode writes
SegmentExt(mode) == IF mode = "ffmpeg_segment" THEN "mp4" ELSE "h264"

\* the segment files the recorder has written under output_dir
RecorderSegments ==
    {n \in FileIds : files[n].kind = "file" /\ files[n].ext = SegmentExt(rotation_mode)}

\* mutant: the pattern descends into subdirectories
ListSegmentsRecursive ==
    {n \in FileIds : files[n].kind \in {"file", "nested_file"} /\ files[n].ext = "mp4"}

\* list_segments(): glob("*.mp4"), which matches the entries of output_dir
\* itself, filtered by is_file()
ListSegments == {n \in FileIds : files[n].kind = "file" /\ files[n].ext = "mp4"}

\* mutant: the list is sorted newest first
NewestVideo ==
    {n \in ListSegments : \A m \in ListSegments : files[n].mtime >= files[m].mtime}

\* _oldest_video(): the head of the list sorted by st_mtime (any of the
\* entries with the least mtime: the sort is stable over glob's order)
OldestVideo ==
    {n \in ListSegments : \A m \in ListSegments : files[n].mtime <= files[m].mtime}

\* mutant: the loop also runs at exactly the minimum
NeedsSpaceInclusive(free) == free <= MinFreeMb

\* the loop test of ensure_free_space
NeedsSpace(free) == free < MinFreeMb

\* how unlinking the chosen entry can end: it is removed ("unlinked"); it had
\* been removed by someone else since the listing, which missing_ok tolerates
\* ("missing"); unlink raises and the call returns from its except branch
\* ("error", sto_pc "gave_up"); or, the entry having vanished during the
\* listing, stat() raises out of list_segments ("stat_error", sto_pc "raised")
UnlinkOutcomes == {"unlinked", "missing", "error", "stat_error"}

\* mutant: a name that unlink did not find stays in the listing
AfterUnlinkStale(oldest, outcome) ==
    IF outcome \in {"error", "missing"}
    THEN files
    ELSE [files EXCEPT ![oldest] = Absent]

\* the directory after the unlink of the chosen entry: the entry is gone unless
\* unlink raised
AfterUnlink(oldest, outcome) ==
    IF outcome = "error"
    THEN files
    ELSE [files EXCEPT ![oldest] = Absent]

\* an order on entries, used only to pick one directory per renaming of names
EntryRank(e) ==
    IF e = Absent
    THEN 0
    ELSE 1 + e.size
           + (MaxSize + 1) * ((e.mtime - 1)
               + MaxMtime * ((CASE e.kind = "file" -> 0
                                [] e.kind = "dir" -> 1
                                [] OTHER -> 2)
                   + 3 * (IF e.ext = "mp4" THEN 0 ELSE 1)))

\* the contents output_dir can have. glob() promises no order and the code
\* never looks at the stem of a name, so of the directories that differ only
\* by a renaming one is kept.
Directories ==
    {f \in [FileIds -> Entries] :
        \A i \in FileIds \ {MaxFiles} : EntryRank(f[i]) <= EntryRank(f[i + 1])}

\* a directory, a free space and a mode to call ensure_free_space in
StoInit ==
    /\ CtlInit(RotationModes)
    /\ vision_enabled
    /\ files \in Directories
    /\ free_mb \in 0..MinFreeMb
    /\ sto_pc = "idle"
    /\ measured = None
    /\ deleted = <<>>
    /\ warned = FALSE
    /\ SenAtRest
    /\ SenConfig({AlphaOff}, {HardcodedHysteresis})
    /\ Booted

\* ensure_free_space() is called
StoCall ==
    /\ sto_pc \in {"idle", "returned", "gave_up", "raised"}
    /\ sto_pc' = "measure"
    /\ measured' = None
    /\ deleted' = <<>>
    /\ warned' = FALSE
    /\ UNCHANGED <<not_sto, files, free_mb>>

\* the while test: _free_mb() is measured and compared with min_free_mb
StoMeasure ==
    /\ sto_pc = "measure"
    /\ measured' = free_mb
    /\ sto_pc' = IF NeedsSpace(free_mb) THEN "select" ELSE "returned"
    /\ UNCHANGED <<not_sto, files, free_mb, deleted, warned>>

\* the loop body: the oldest segment is looked up and unlinked, or there is none
StoDelete ==
    /\ sto_pc = "select"
    /\ UNCHANGED not_sto
    /\ measured' = None
    /\ IF ListSegments = {}
       THEN /\ warned' = TRUE
            /\ sto_pc' = "returned"
            /\ UNCHANGED <<files, free_mb, deleted>>
       ELSE \E oldest \in OldestVideo, outcome \in UnlinkOutcomes :
            /\ warned' = warned
            /\ files' = AfterUnlink(oldest, outcome)
            /\ free_mb' = IF outcome = "error"
                          THEN free_mb
                          ELSE free_mb + files[oldest].size
            /\ deleted' = IF outcome = "unlinked"
                          THEN Append(deleted, [name |-> oldest, entry |-> files[oldest]])
                          ELSE deleted
            /\ sto_pc' = CASE outcome = "error" -> "gave_up"
                           [] outcome = "stat_error" -> "raised"
                           [] OTHER -> "measure"

StoNext == StoCall \/ StoMeasure \/ StoDelete

StorageSpec == StoInit /\ [][StoNext]_vars

\* ensure_free_space is straight-line code: once called it keeps running
FairStorageSpec ==
    /\ StorageSpec
    /\ WF_vars(StoMeasure)
    /\ WF_vars(StoDelete)

\* what can be under output_dir when subdirectories have contents: an entry of
\* output_dir itself, or a regular file inside one of its subdirectories
\* ("nested_file"); every entry as large as can be
TreeEntries ==
    [kind : {"file", "dir", "nested_file"}, ext : {"mp4", "h264"},
     mtime : 1..MaxMtime, size : {MaxSize}] \cup {Absent}

Trees ==
    {f \in [FileIds -> TreeEntries] :
        \A i \in FileIds \ {MaxFiles} : EntryRank(f[i]) <= EntryRank(f[i + 1])}

\* ensure_free_space called on a directory with subdirectories
TreeInit ==
    /\ CtlInit({"ffmpeg_segment"})
    /\ vision_enabled
    /\ files \in Trees
    /\ free_mb \in 0..MinFreeMb
    /\ sto_pc = "idle"
    /\ measured = None
    /\ deleted = <<>>
    /\ warned = FALSE
    /\ SenAtRest
    /\ SenConfig({AlphaOff}, {HardcodedHysteresis})
    /\ Booted

TreeSpec == TreeInit /\ [][StoNext]_vars

\* ------------------------------------------------------------------ sensor
\* ToFSensor.events(), hardware path. Distances are kept in 1/Scale mm, so that
\* MaxSamples steps of the moving average stay exact.
MaxSamples == 3

MaxZones == 2

RECURSIVE Pow(_, _)
Pow(b, e) == IF e = 0 THEN 1 ELSE b * Pow(b, e - 1)

Scale == Pow(AlphaDen, MaxSamples)


SetMin(S) == CHOOSE x \in S : \A y \in S : x <= y

I2C_RETRIES == 3

\* the field min_confidence of ToFSensor
min_confidence == 5

\* a zone of a measurement: r.distance (mm, 0 for "nothing seen") and r.confidence
Distances == {0, 600, 620, 640}

Confidences == {min_confidence - 1, min_confidence + 1}

Zones == [distance : Distances, confidence : Confidences]

\* m.results of one tof.measure()
Measurements == {zs \in SUBSET Zones : Cardinality(zs) <= MaxZones}

\* what the configuration may hold for the sensor
AlphaChoices == 0..AlphaDen

HysteresisChoices == {HardcodedHysteresis \div 2, HardcodedHysteresis}

\* the best r.confidence among m.results, None when there are no results
MaxConfidence(zones) ==
    IF zones = {}
    THEN None
    ELSE CHOOSE c \in {z.confidence : z \in zones} :
             \A z \in zones : z.confidence <= c

\* distances = [float(r.distance) for r in m.results if r.distance > 0]
ValidDistances(zones) == {z.distance : z \in {r \in zones : r.distance > 0}}

\* the moving average: current_mm from raw_mm and the previous smoothed_mm
SmoothAlways(alpha, raw, prev) ==
    IF prev # None
    THEN (alpha * raw + (AlphaDen - alpha) * prev) \div AlphaDen
    ELSE raw

\* mutant: the weights of the two terms are swapped
SmoothSwapped(alpha, raw, prev) ==
    IF alpha > 0 /\ prev # None
    THEN ((AlphaDen - alpha) * raw + alpha * prev) \div AlphaDen
    ELSE raw

Smooth(alpha, raw, prev) ==
    IF alpha > 0 /\ prev # None
    THEN (alpha * raw + (AlphaDen - alpha) * prev) \div AlphaDen
    ELSE raw

\* the comparison that decides an event
Fires(current, stable) == Abs(current - stable) >= HardcodedHysteresis * Scale

\* the seeding and the hysteresis: the new baseline_mm and stable_mm, and
\* whether True is yielded
HysteresisFiresOnSeed(current, base, stable) ==
    IF base = None \/ stable = None
    THEN [baseline |-> IF base = None THEN current ELSE base,
          stable |-> current, fired |-> TRUE]
    ELSE IF Fires(current, stable)
    THEN [baseline |-> base, stable |-> current, fired |-> TRUE]
    ELSE [baseline |-> base, stable |-> stable, fired |-> FALSE]

Hysteresis(current, base, stable) ==
    IF base = None
    THEN [baseline |-> current, stable |-> current, fired |-> FALSE]
    ELSE IF stable = None
    THEN [baseline |-> base, stable |-> current, fired |-> FALSE]
    ELSE IF Fires(current, stable)
    THEN [baseline |-> base, stable |-> current, fired |-> TRUE]
    ELSE [baseline |-> base, stable |-> stable, fired |-> FALSE]

\* the retry loop is at its last attempt
LastAttemptNever(a) == FALSE

LastAttempt(a) == a = I2C_RETRIES

\* how one attempt of the retry loop can end: SMBus() raised OSError, enable()
\* raised OSError, enable() returned, or something other than OSError was raised
AttemptOutcomes == {"bus_oserror", "enable_oserror", "ok", "other_error"}

\* how one tof.measure() can end
PollOutcomes == {"ok", "TMF882xException", "OSError", "Exception"}

\* what tof.measure() hands back: results only when it returns
MeasuredBy(outcome) == IF outcome = "ok" THEN Measurements ELSE {{}}

\* the except clauses of the sampling loop that log and continue
PollSkipped(outcome) == outcome \in {"TMF882xException", "Exception"}

\* the configurations events() is run in
SenInit ==
    /\ CtlInit({"ffmpeg_segment"})
    /\ vision_enabled
    /\ StoAtRest
    /\ SenAtRest
    /\ SenConfig(AlphaChoices, HysteresisChoices)
    /\ Booted

\* events() is entered in hardware mode, the driver imported
SenStart ==
    /\ sen_pc = "off"
    /\ sen_pc' = "init"
    /\ UNCHANGED <<not_sen, alpha_num, hysteresis_mm, attempt, bus, tof,
                   smoothed_mm, stable_mm, baseline_mm, debug_distance_mm,
                   n_samples, n_events, init_failures, last_poll, cal_file,
                   calibrated, cal_warned, sim_vars>>

\* the length a calibration blob must have
CalibrationSize == 188

\* what can be at calibration_file: no file configured ("none"), a configured
\* path that does not exist ("missing"), or a file of some length
CalFiles ==
    {[kind |-> "none", len |-> 0], [kind |-> "missing", len |-> 0]}
    \cup [kind : {"file"},
          len : {CalibrationSize - 1, CalibrationSize, CalibrationSize + 1}]

\* without a configured file: the sensor reports calibration_ok, or
\* tof.calibrate() is called and returns or raises TMF882xException
RuntimeCalibrations == {"calibration_ok", "calibrated", "TMF882xException"}

\* mutant: a blob that is long enough is written
CalibrationFitsAtLeast(len) == len >= CalibrationSize

\* the length test on the bytes read from calibration_file
CalibrationFits(len) == len = CalibrationSize

\* the calibration between enable() and the sampling loop, on the file f found
\* and, without a configured file, the runtime calibration rt
Calibrate(f, rt) ==
    /\ cal_file' = f
    /\ calibrated' = CASE f.kind = "file" /\ CalibrationFits(f.len) -> "file"
                        [] f.kind = "none" /\ rt = "calibrated" -> "runtime"
                        [] OTHER -> "no"
    /\ cal_warned' = (f.kind = "missing" \/ (f.kind = "file" /\ ~CalibrationFits(f.len)))

\* one pass of "for attempt in range(1, I2C_RETRIES + 1)", with the for-else and
\* the finally clause when the pass raises; after the pass in which enable()
\* returned, the calibration up to the sampling loop
SenAttempt(outcome) ==
    /\ sen_pc = "init"
    /\ attempt' = attempt + 1
    /\ CASE outcome = "ok" ->
              /\ bus' = TRUE
              /\ tof' = TRUE
              /\ sen_pc' = "sampling"
              /\ UNCHANGED init_failures
              /\ \E f \in CalFiles, rt \in RuntimeCalibrations : Calibrate(f, rt)
         [] outcome = "other_error" ->
              /\ bus' = FALSE
              /\ tof' = FALSE
              /\ sen_pc' = "fatal"
              /\ init_failures' = init_failures + 1
              /\ UNCHANGED <<cal_file, calibrated, cal_warned>>
         [] outcome = "bus_oserror" ->
              /\ bus' = FALSE
              /\ tof' = FALSE
              /\ sen_pc' = IF LastAttempt(attempt') THEN "fatal" ELSE "init"
              /\ init_failures' = init_failures + 1
              /\ UNCHANGED <<cal_file, calibrated, cal_warned>>
         [] outcome = "enable_oserror" ->
              /\ bus' = ~LastAttempt(attempt')
              /\ tof' = FALSE
              /\ sen_pc' = IF LastAttempt(attempt') THEN "fatal" ELSE "init"
              /\ init_failures' = init_failures + 1
              /\ UNCHANGED <<cal_file, calibrated, cal_warned>>
    /\ UNCHANGED <<not_sen, alpha_num, hysteresis_mm, smoothed_mm,
                   stable_mm, baseline_mm, debug_distance_mm, n_samples, n_events,
                   last_poll, sim_vars>>

\* what the sampling loop does with a valid distance raw_mm: smoothing,
\* seeding, hysteresis
Sample(raw_mm, confidence) ==
    LET current_mm == Smooth(alpha_num, raw_mm, smoothed_mm)
        h == Hysteresis(current_mm, baseline_mm, stable_mm)
    IN  /\ smoothed_mm' = current_mm
        /\ debug_distance_mm' = current_mm
        /\ baseline_mm' = h.baseline
        /\ stable_mm' = h.stable
        /\ n_events' = IF h.fired THEN n_events + 1 ELSE n_events
        /\ last_poll' = [outcome |-> "ok", confidence |-> confidence,
                         valid |-> TRUE, raw |-> raw_mm, fired |-> h.fired]

\* one pass of the sampling loop: tof.measure() and what is done with it
SenPoll(outcome, zones) ==
    /\ sen_pc = "sampling"
    /\ n_samples < MaxSamples
    /\ n_samples' = n_samples + 1
    /\ IF outcome = "OSError"
       THEN /\ sen_pc' = "fatal"
            /\ bus' = FALSE
            /\ tof' = FALSE
            /\ last_poll' = [outcome |-> outcome, confidence |-> MaxConfidence(zones),
                             valid |-> FALSE, raw |-> None, fired |-> FALSE]
            /\ UNCHANGED <<smoothed_mm, stable_mm, baseline_mm, debug_distance_mm,
                           n_events>>
       ELSE IF PollSkipped(outcome)
       THEN /\ last_poll' = [outcome |-> outcome, confidence |-> MaxConfidence(zones),
                             valid |-> FALSE, raw |-> None, fired |-> FALSE]
            /\ UNCHANGED <<sen_pc, bus, tof, smoothed_mm, stable_mm, baseline_mm,
                           debug_distance_mm, n_events>>
       ELSE IF ValidDistances(zones) = {}
       THEN /\ last_poll' = [outcome |-> outcome, confidence |-> MaxConfidence(zones),
                             valid |-> FALSE, raw |-> None, fired |-> FALSE]
            /\ UNCHANGED <<sen_pc, bus, tof, smoothed_mm, stable_mm, baseline_mm,
                           debug_distance_mm, n_events>>
       ELSE /\ Sample(SetMin(ValidDistances(zones)) * Scale, MaxConfidence(zones))
            /\ UNCHANGED <<sen_pc, bus, tof>>
    /\ UNCHANGED <<not_sen, alpha_num, hysteresis_mm, attempt,
                   init_failures, cal_file, calibrated, cal_warned, sim_vars>>

SenNext ==
    \/ SenStart
    \/ \E outcome \in AttemptOutcomes : SenAttempt(outcome)
    \/ \E outcome \in PollOutcomes : \E zones \in MeasuredBy(outcome) : SenPoll(outcome, zones)

SensorSpec == SenInit /\ [][SenNext]_vars

\* ------------------------------------------------------- sensor, simulated
\* events() with simulate = True, next to a hardware-mode sensor whose
\* tof.measure() returns, pass by pass, the distances the simulation draws.
\* baseline_mm = 600.0
SimBaseline == 600

\* random.uniform(-5.0, 5.0)
JitterMm == 5

\* max(50.0, ...)
SimFloor == 50

\* abs(current_mm - stable_mm) >= 40.0
SimHysteresis == 40

\* the jitters drawn: the two ends of the interval and its middle
Jitters == {0 - JitterMm, 0, JitterMm}

\* smoothing off, or a moving average of weight 1: the hardware path then
\* takes every distance as it is
SimAlphas == {AlphaOff, AlphaDen}

SimInit ==
    /\ CtlInit({"ffmpeg_segment"})
    /\ vision_enabled
    /\ StoAtRest
    /\ SenAtRest
    /\ SenConfig(SimAlphas, {HardcodedHysteresis})
    /\ Booted

\* one pass of the simulation loop with jitter j: current_mm, stable_mm and
\* whether True is yielded (the locals are 600.0 before the first pass)
SimPass(j) ==
    LET current == IF sim_current = None THEN SimBaseline * Scale ELSE sim_current
        stable == IF sim_stable = None THEN SimBaseline * Scale ELSE sim_stable
        moved == current + j * Scale
        next == IF moved < SimFloor * Scale THEN SimFloor * Scale ELSE moved
        fires == Abs(next - stable) >= SimHysteresis * Scale
    IN  /\ sim_current' = next
        /\ sim_stable' = IF fires THEN next ELSE stable
        /\ sim_fired' = fires

\* a pass of the simulation, and a pass of the hardware loop on the distance
\* the simulation has drawn
SimPair(j) ==
    /\ sen_pc = "sampling"
    /\ n_samples < MaxSimSteps
    /\ n_samples' = n_samples + 1
    /\ SimPass(j)
    /\ Sample(sim_current', min_confidence + 1)
    /\ UNCHANGED <<not_sen, alpha_num, hysteresis_mm, sen_pc, attempt, bus, tof,
                   init_failures, cal_file, calibrated, cal_warned>>

SimNext ==
    \/ SenStart
    \/ \E outcome \in AttemptOutcomes : SenAttempt(outcome)
    \/ \E j \in Jitters : SimPair(j)

SimSpec == SimInit /\ [][SimNext]_vars

\* ------------------------------------------------------------ status loops
\* _distance_log_loop and _dev_status_loop (developer mode), next to the other
\* loops of run_forever and a sensor that publishes its distance.
\* mutant: reading the distance takes it away
ReadDistanceAndClear(d) == None

\* getattr(self._sensor, "debug_distance_mm", None): the field is read and stays
ReadDistance(d) == d

\* what the sensor's own loop has in debug_distance_mm
PublishedDistances == {SimBaseline * Scale}

\* events() stores a distance in debug_distance_mm
SensorPublishes(d) ==
    /\ run = "running"
    /\ debug_distance_mm # d
    /\ debug_distance_mm' = d
    /\ UNCHANGED <<not_sen, alpha_num, hysteresis_mm, sen_pc, attempt, bus, tof,
                   smoothed_mm, stable_mm, baseline_mm, n_samples, n_events,
                   init_failures, last_poll, cal_file, calibrated, cal_warned,
                   sim_vars>>

\* a status loop wakes up and logs its line
StatusLine(loop, shown) ==
    /\ run \in {"running", "aborting"}
    /\ journal' = [seq |-> 1 - journal.seq, loop |-> loop, state |-> shown,
                   distance |-> debug_distance_mm]
    /\ debug_distance_mm' = ReadDistance(debug_distance_mm)
    /\ UNCHANGED <<ctl_vars, sto_vars, cam_vars, pix_vars, env, boot>>
    /\ UNCHANGED <<alpha_num, hysteresis_mm, sen_pc, attempt, bus, tof,
                   smoothed_mm, stable_mm, baseline_mm, n_samples, n_events,
                   init_failures, last_poll, cal_file, calibrated, cal_warned,
                   sim_vars>>

\* one turn of _distance_log_loop after its sleep(2.0)
DistanceLogLoop == StatusLine("distance", "n/a")

\* one turn of _dev_status_loop after its sleep(1.0)
DevStatusLoop == StatusLine("dev", state)

StatusNext ==
    \/ Next
    \/ DistanceLogLoop
    \/ DevStatusLoop
    \/ \E d \in PublishedDistances : SensorPublishes(d)

StatusSpec == Init /\ [][StatusNext]_vars

\* ------------------------------------------------------------------ claims
\* a step in which _on_motion handled an event
DeliveryStep == delivered'.seq # delivered.seq

Count(seq, x) == Cardinality({i \in DOMAIN seq : seq[i] = x})

StartCycle == <<"ensure_free_space", "start">>
StoppingCycle == <<"ensure_free_space", "start", "stop">>
FullCycle == <<"ensure_free_space", "start", "stop", "ensure_free_space">>

\* C1: an event that passes debounce while Idle invokes the recorder's start
\* exactly once and, start having returned, leaves the controller Recording;
\* no further start is invoked until the controller is Idle again.
C1_StartOnceFromIdle ==
    [][ /\ (DeliveryStep /\ state = IDLE /\ ~delivered'.discarded)
           => /\ calls' = StartCycle
              /\ start_result' \in {"ok", "failed"}
              /\ (start_result' = "ok" => state' = RECORDING)
        /\ (state' = RECORDING => Count(calls', "start") = 1) ]_vars

C1_Witness ==
    /\ state = RECORDING
    /\ calls = StartCycle
    /\ delivered.source = "sensor"
    /\ ~delivered.discarded
    /\ last_motion_event.source = "sensor"
    /\ start_result = "ok"

\* C2: Recording is left for Idle only by the timeout loop, only after its check
\* read an elapsed time >= inactivity_seconds, with one recorder stop, then one
\* retention check, then last_motion_t cleared.
C2_StopOnlyByTimeout ==
    [][ /\ (state = RECORDING /\ state' = IDLE)
           => /\ ~DeliveryStep
              /\ pc_state \in {"sleep", "stop_rotate", "stop_sleep"}
              /\ pc_state' = "sleep"
              /\ stop_check' # None
              /\ stop_check' >= Inactivity
              /\ calls' = FullCycle
              /\ last_motion_t' = None
        /\ (pc_state' \in {"stop_rotate", "stop_sleep"}
           => /\ calls' = StoppingCycle
              /\ state' = RECORDING
              /\ last_motion_t' # None
              /\ stop_check' >= Inactivity) ]_vars

C2_Witness ==
    /\ state = IDLE
    /\ calls = FullCycle
    /\ last_motion_t = None
    /\ stop_check >= Inactivity
    /\ stop_result = "ok"

\* C3: under fair scheduling a recording whose timer no Camera event resets
\* returns to Idle, however many Sensor events arrive.
C3_SensorCannotKeepAlive ==
    \A b \in {0, 1} :
        (state = RECORDING /\ cam_bit = b) ~> (state = IDLE \/ cam_bit # b)

\* a recording has timed out although a Sensor event was accepted less than the
\* inactivity window before
C3_Witness ==
    /\ state = IDLE
    /\ calls = FullCycle
    /\ last_motion_event.source = "sensor"
    /\ last_motion_event.t # None
    /\ last_motion_event.t < Inactivity

\* C4: while Recording, handling a Sensor event changes neither last_motion_t
\* nor the state, discarded by debounce or not.
C4_SensorKeepsTimer ==
    [][ (DeliveryStep /\ state = RECORDING /\ delivered'.source = "sensor")
        => (last_motion_t' = last_motion_t /\ state' = state) ]_vars

C4_Witness ==
    /\ state = RECORDING
    /\ delivered.source = "sensor"
    /\ ~delivered.discarded
    /\ delivered.t = 0
    /\ last_motion_event = MotionEvent("sensor", 0)
    /\ last_motion_t >= DebounceTicks

\* C5: while Recording, a Camera event that passes debounce sets last_motion_t
\* to the event's timestamp.
C5_CameraResetsTimer ==
    [][ (DeliveryStep /\ state = RECORDING /\ delivered'.source = "camera"
         /\ ~delivered'.discarded)
        => (last_motion_t' = delivered'.t /\ state' = RECORDING) ]_vars

C5_Witness ==
    /\ state = RECORDING
    /\ delivered.source = "camera"
    /\ ~delivered.discarded
    /\ last_motion_t = delivered.t
    /\ cam_bit = 1

\* C6: an event stamped less than 0.5 s after the most recently accepted event
\* changes neither the state nor last_motion_t and starts no recording.
C6_DebounceDiscard ==
    [][ (DeliveryStep /\ last_motion_event.source # "none"
         /\ last_motion_event.t < DebounceTicks)
        => (state' = state /\ last_motion_t' = last_motion_t /\ calls' = calls) ]_vars

\* C7: of two consecutive events delivered at least 0.5 s apart, the second is
\* not discarded by debounce.
C7_DebouncePass ==
    [][ (DeliveryStep /\ delivered.source # "none" /\ delivered.t >= DebounceTicks)
        => ~delivered'.discarded ]_vars

\* C8: a failed recorder start leaves the state Idle, propagates, and ends the
\* whole controller run, after which nothing of the controller changes.
C8_StartFailureFatal ==
    /\ [](start_result = "failed" => (state = IDLE /\ run # "running"))
    /\ (start_result = "failed" ~> run = "terminated")
    /\ [][run = "terminated"
          => (~DeliveryStep /\ UNCHANGED <<state, recorder, calls, run>>)]_vars

C8_Witness ==
    /\ start_result = "failed"
    /\ run = "terminated"
    /\ state = IDLE
    /\ calls = StartCycle

\* C9: a recorder stop that raises is swallowed: the retention check has run,
\* the controller is Idle with last_motion_t cleared, and the loops keep running.
C9_StopFailureSwallowed ==
    stop_result = "raised"
        => /\ state = IDLE
           /\ last_motion_t = None
           /\ calls = FullCycle
           /\ run = "running"
           /\ pc_state = "sleep"

C9_Witness ==
    /\ stop_result = "raised"
    /\ state = IDLE
    /\ rotate_task = "failed"

\* C10: no _on_motion call runs while the timeout loop is suspended inside
\* _stop_recording.
C10_Serialized ==
    [][DeliveryStep => pc_state = "sleep"]_vars

C12_RetentionPoints ==
    [][ /\ (calls' # calls)
           => \/ /\ calls' = StartCycle
                 /\ DeliveryStep
                 /\ state = IDLE
                 /\ ~rec_running
              \/ /\ calls' = StoppingCycle
                 /\ calls = StartCycle
                 /\ ~rec_running'
              \/ /\ calls' = FullCycle
                 /\ calls \in {StartCycle, StoppingCycle}
                 /\ ~rec_running'
                 /\ state = RECORDING
                 /\ state' = IDLE
        /\ (start_result' # start_result \/ rec_running' # rec_running
            \/ state' # state)
           => calls' # calls ]_vars

\* a start that failed after its retention check
C12_Witness ==
    /\ start_result = "failed"
    /\ calls = StartCycle
    /\ ~rec_running
    /\ state = IDLE
    /\ run = "aborting"

\* C13: when ensure_free_space returns, the free space is at least the minimum,
\* or no segment written by the recorder remains and the warning was logged
\* (stated for the returns of the loop itself; the return after an unlink
\* that raised, "gave_up", is left out of the statement).
C13_RetentionPostcondition ==
    sto_pc = "returned"
        => \/ free_mb >= MinFreeMb
           \/ (RecorderSegments = {} /\ warned)

\* C14: a file is deleted only directly after a fresh measurement below the
\* minimum, one file per measurement; a measurement at or above the minimum
\* ends the call without a deletion.
C14_MinimalDeletion ==
    [][ /\ (files' # files \/ (deleted' # deleted /\ deleted' # <<>>))
           => /\ sto_pc = "select"
              /\ measured # None
              /\ measured = free_mb
              /\ measured < MinFreeMb
              /\ measured' = None
              /\ Len(deleted') <= Len(deleted) + 1
              /\ Cardinality({n \in FileIds : files'[n] # files[n]}) = 1
        /\ (measured' # None /\ measured' >= MinFreeMb)
           => (sto_pc' = "returned" /\ files' = files /\ deleted' = deleted) ]_vars

\* one deletion reached the minimum and a further segment was left alone
C14_Witness ==
    /\ sto_pc = "returned"
    /\ Len(deleted) = 1
    /\ measured # None
    /\ measured >= MinFreeMb
    /\ ListSegments # {}

\* a step in which the sampling loop called tof.measure()
PollStep == n_samples' = n_samples + 1

\* a step in which a measurement with a distance above 0 was processed
ValidPoll == PollStep /\ last_poll'.valid

\* C15: on every valid sample after the first an event is emitted exactly when
\* the smoothed distance differs from the stable reference by at least the
\* configured hysteresis_mm; the reference becomes the smoothed distance when
\* the sample fires and is left alone when it does not.
C15_ConfiguredHysteresis ==
    [][(ValidPoll /\ stable_mm # None)
        => /\ last_poll'.fired
                <=> Abs(smoothed_mm' - stable_mm) >= hysteresis_mm * Scale
           /\ stable_mm' = IF last_poll'.fired THEN smoothed_mm' ELSE stable_mm]_vars

\* C16: the first valid sample makes its smoothed distance the stable reference
\* and emits no event; while there is no stable reference no event has been
\* emitted.
C16_Seeding ==
    /\ [](stable_mm = None => n_events = 0)
    /\ [][(ValidPoll /\ stable_mm = None)
            => /\ stable_mm' = smoothed_mm'
               /\ ~last_poll'.fired
               /\ n_events' = n_events]_vars

C16_Witness ==
    /\ sen_pc = "sampling"
    /\ last_poll.valid
    /\ stable_mm = last_poll.raw
    /\ baseline_mm = stable_mm
    /\ n_events = 0
    /\ stable_mm > HardcodedHysteresis * Scale

\* C17: with smooth_alpha = 0 every valid sample leaves the smoothed distance,
\* and the reported one, equal to the raw distance, and the event is decided on
\* the raw distance.
C17_SmoothingIdentity ==
    [][(ValidPoll /\ alpha_num = AlphaOff)
        => /\ smoothed_mm' = last_poll'.raw
           /\ debug_distance_mm' = last_poll'.raw
           /\ stable_mm # None
                => (last_poll'.fired <=> Fires(last_poll'.raw, stable_mm))]_vars

C17_Witness ==
    /\ alpha_num = AlphaOff
    /\ last_poll.valid
    /\ smoothed_mm = last_poll.raw
    /\ baseline_mm # None
    /\ baseline_mm # last_poll.raw

\* C18: a measurement whose zones all have a confidence below min_confidence
\* changes neither the smoothed distance, nor the stable reference, nor the
\* reported distance, and emits no event.
C18_LowConfidenceDiscarded ==
    [][(/\ PollStep
        /\ last_poll'.outcome = "ok"
        /\ last_poll'.confidence # None
        /\ last_poll'.confidence < min_confidence)
        => UNCHANGED <<smoothed_mm, stable_mm, debug_distance_mm, n_events>>]_vars

\* C19: a tof.measure() that raises (driver exception, OS-level I/O error or
\* anything else) leaves the smoothed distance and the stable reference as they
\* were and the sampling loop running.
C19_ReadErrorSkipped ==
    [][(PollStep /\ last_poll'.outcome \in PollOutcomes \ {"ok"})
        => /\ sen_pc' = "sampling"
           /\ UNCHANGED <<smoothed_mm, stable_mm>>]_vars

\* C20: initialization makes at most I2C_RETRIES attempts and never waits for
\* another one after the last; sampling needs an attempt that succeeded, an
\* attempt that succeeded starts the sampling, and when I2C_RETRIES attempts
\* have failed events() has raised and no sample was taken.
C20_BoundedInitRetry ==
    /\ attempt <= I2C_RETRIES
    /\ sen_pc = "init" => attempt < I2C_RETRIES
    /\ sen_pc = "sampling" => (bus /\ tof /\ init_failures < attempt)
    /\ n_samples > 0 => init_failures < attempt
    /\ init_failures < attempt => (sen_pc = "sampling" \/ n_samples > 0)
    /\ init_failures = I2C_RETRIES => (sen_pc = "fatal" /\ n_samples = 0)

C20_Witness ==
    /\ init_failures = I2C_RETRIES
    /\ attempt = I2C_RETRIES
    /\ sen_pc = "fatal"
    /\ n_samples = 0

\* the configuration errors C21 lists: an unsupported backend, or a missing
\* picamera2, ffmpeg (in ffmpeg_segment mode) or sensor driver (in hardware mode)
ConfigError ==
    \/ env.backend # "picamera2"
    \/ ~env.picamera2
    \/ (rotation_mode = "ffmpeg_segment" /\ ~env.ffmpeg)
    \/ (~env.simulate /\ ~env.driver)

C22_CalibrationBlobChecked ==
    /\ calibrated = "file" => (cal_file.kind = "file" /\ cal_file.len = CalibrationSize)
    /\ (cal_file.kind = "file" /\ cal_file.len # CalibrationSize)
        => /\ calibrated = "no"
           /\ cal_warned
           /\ (sen_pc = "sampling" \/ n_samples > 0)

C22_Witness ==
    /\ cal_file = [kind |-> "file", len |-> CalibrationSize + 1]
    /\ calibrated = "no"
    /\ cal_warned
    /\ last_poll.valid

\* C23: start() called while the recorder is running, and stop() called while
\* it is not, change nothing of the recorder: no handle, process or task is
\* made or released, the frame slot and the lock stay as they are.
C23_StartStopIdempotent ==
    [][(cam_call'.seq # cam_call.seq)
        => /\ (cam_call'.op = "start" /\ rec_running)
                => UNCHANGED <<recorder, latest_motion_frame, slot, lock, cam_pc>>
           /\ (cam_call'.op = "stop" /\ ~rec_running)
                => UNCHANGED <<recorder, latest_motion_frame, slot, lock, cam_pc>>]_vars

C23_Witness ==
    /\ cam_call.op = "start"
    /\ cam_call.was_running
    /\ rec_running
    /\ picam2 = "started"

\* C29: the slot always holds the last frame _pre_callback was given, whatever
\* the lock's state, and _pre_callback leaves the lock alone; get_motion_frame
\* returns that frame while the recorder is running and None while it is not.
C29_FrameHandoff ==
    /\ [](produced # None => slot = produced)
    /\ [][(slot' # slot \/ produced' # produced)
            => (lock' = lock /\ vis_pc' = vis_pc)]_vars
    /\ [][(vis_turn'.seq # vis_turn.seq)
            => vis_turn'.frame = IF rec_running THEN produced ELSE None]_vars

C29_Witness ==
    /\ lock
    /\ rec_running
    /\ slot # None
    /\ slot = produced
    /\ vis_turn.frame # None
    /\ vis_turn.frame # slot

\* C30: detect returns False and keeps _prev_small when the detector is disabled
\* or the rate limit has not elapsed; a turn of the vision loop that gets no
\* frame calls no detect and makes no event.
C30_VisionNoOp ==
    /\ [][(detected'.seq # detected.seq
           /\ (~vision_enabled \/ vis_last_t < VisionPeriod))
            => (~detected'.result /\ prev_small' = prev_small)]_vars
    /\ [][(vis_turn'.seq # vis_turn.seq /\ vis_turn'.frame = None)
            => (~vis_turn'.event /\ detected' = detected)]_vars

C30_Witness ==
    /\ vision_enabled
    /\ detected.limited
    /\ ~detected.result
    /\ prev_small # None
    /\ vis_turn.frame # None
    /\ vis_turn.frame # prev_small

\* C24: once the controller has been cancelled the hardware is released: the
\* sensor bus is closed and the recorder is stopped, its camera and its
\* transcoding process released.
C24_CancelCleansUp ==
    run = "cancelled"
        => /\ ~bus
           /\ ~rec_running
           /\ picam2 \in {"none", "closed"}
           /\ ~ffmpeg_proc

\* C25: when an accepted event finds the controller Idle, last_motion_t is the
\* event's timestamp, whether start() then fails or returns, and the state is
\* Recording exactly when start() returned.
C25_StartOrdering ==
    [][(DeliveryStep /\ state = IDLE /\ ~delivered'.discarded)
        => /\ last_motion_t' = delivered'.t
           /\ state' = RECORDING <=> start_result' = "ok"]_vars

\* C26: every file ensure_free_space deletes is, when it is deleted, a listed
\* segment with the least modification time of all listed segments, and the
\* files deleted by one call have non-decreasing modification times.
C26_OldestFirst ==
    /\ [][(Len(deleted') > Len(deleted))
            => LET d == deleted'[Len(deleted')] IN
               /\ d.name \in ListSegments
               /\ files[d.name] = d.entry
               /\ \A m \in ListSegments : d.entry.mtime <= files[m].mtime]_vars
    /\ [](\A i \in 1..(Len(deleted) - 1) :
            deleted[i].entry.mtime <= deleted[i + 1].entry.mtime)

C26_Witness ==
    /\ Len(deleted) = MaxFiles
    /\ deleted[1].entry.mtime < deleted[MaxFiles].entry.mtime

\* the deletions of the running call plus the segments still listed
Budget == Len(deleted) + Cardinality(ListSegments)

\* C27: a call of ensure_free_space ends, and its deletions plus the segments
\* still listed never exceed the segments listed when it was called: it deletes
\* at most that many files, whatever the unlinks free and however they end.
C27_Terminates ==
    /\ (sto_pc \in {"measure", "select"}) ~> (sto_pc \in {"returned", "gave_up", "raised"})
    /\ [][IF deleted' = <<>> /\ UNCHANGED files
          THEN TRUE
          ELSE Len(deleted') + Cardinality(ListSegments') <= Budget]_vars

C27_Witness ==
    /\ sto_pc = "returned"
    /\ Len(deleted) = MaxFiles
    /\ \A i \in 1..MaxFiles : deleted[i].entry.size = 0
    /\ warned

\* alpha*raw + (1 - alpha)*prev, in 1/Scale mm and with alpha in 1/AlphaDen
IsEma(new, alpha, raw, prev) == AlphaDen * new = alpha * raw + (AlphaDen - alpha) * prev

\* C28 as stated: for every alpha the first valid sample sets smoothed_mm to the
\* raw distance and every later one to alpha*raw + (1 - alpha)*previous.
C28_EmaEveryAlpha ==
    [][ValidPoll
        => IF smoothed_mm = None
           THEN smoothed_mm' = last_poll'.raw
           ELSE IsEma(smoothed_mm', alpha_num, last_poll'.raw, smoothed_mm)]_vars

\* C28, amended: that holds for alpha > 0; with alpha = 0 every valid sample
\* sets smoothed_mm to the raw distance.
C28_EmaPositiveAlpha ==
    [][ValidPoll
        => IF smoothed_mm = None \/ alpha_num = AlphaOff
           THEN smoothed_mm' = last_poll'.raw
           ELSE IsEma(smoothed_mm', alpha_num, last_poll'.raw, smoothed_mm)]_vars

C28_Witness ==
    /\ alpha_num > AlphaOff
    /\ alpha_num < AlphaDen
    /\ last_poll.valid
    /\ n_samples = MaxSamples
    /\ smoothed_mm # last_poll.raw
    /\ smoothed_mm # baseline_mm

\* a call of detect() that got as far as the frame: enabled, not rate limited,
\* numpy imported
Evaluated ==
    /\ detected'.seq # detected.seq
    /\ vision_enabled
    /\ ~detected'.limited
    /\ seen'.np

\* C31: a frame evaluated while no previous frame is stored becomes the stored
\* frame and detect returns False, whatever the pixels of the frame.
C31_FirstFrame ==
    [][(Evaluated /\ prev_small = None)
        => (prev_small' = seen'.frame /\ ~detected'.result)]_vars

C31_Witness ==
    /\ seen.frame # None
    /\ seen.prev = None
    /\ seen.np
    /\ vision_enabled
    /\ ~detected.limited
    /\ prev_small = seen.frame
    /\ pixels[seen.frame].lit = MaxLit
    /\ pixels[seen.frame].luma > sensitivity

\* the sampled pixels of frame f whose luma differs from frame p's by more
\* than the sensitivity
Changed(p, f) ==
    {i \in 1..SampledPixels :
        \/ pixels[f].luma * (IF i <= pixels[f].lit THEN 1 ELSE 0)
            - pixels[p].luma * (IF i <= pixels[p].lit THEN 1 ELSE 0) > sensitivity
        \/ pixels[p].luma * (IF i <= pixels[p].lit THEN 1 ELSE 0)
            - pixels[f].luma * (IF i <= pixels[f].lit THEN 1 ELSE 0) > sensitivity}

\* C32: for a frame evaluated against a stored previous frame, detect returns
\* True exactly when the pixels that differ by more than the sensitivity are
\* more than 2% of the sampled pixels, and the frame replaces the stored one
\* either way.
C32_DecisionRule ==
    [][(Evaluated /\ prev_small # None)
        => /\ detected'.result
                <=> (100 * Cardinality(Changed(prev_small, seen'.frame))
                        > MotionPercent * SampledPixels)
           /\ prev_small' = seen'.frame]_vars

\* a frame with changed pixels, but no more than 2% of them, was evaluated and
\* not declared moving
C32_Witness ==
    /\ seen.frame # None
    /\ seen.prev # None
    /\ seen.np
    /\ vision_enabled
    /\ ~detected.limited
    /\ ~detected.result
    /\ prev_small = seen.frame
    /\ Changed(seen.prev, seen.frame) # {}

\* C33: fed the same distances, the simulation and the hardware path yield True
\* on the same samples.
C33_SamePipeline ==
    [][(n_samples' # n_samples)
        => (sim_fired' <=> last_poll'.fired)]_vars

\* C34: a step of the distance log loop or of the developer status loop changes
\* neither the controller's state, timer and last event, nor the recorder, nor
\* the sensor.
C34_StatusReadOnly ==
    [][(journal' # journal)
        => UNCHANGED <<state, last_motion_t, last_motion_event, recorder,
                       latest_motion_frame, sen_vars>>]_vars

C34_Witness ==
    /\ journal.loop = "dev"
    /\ journal.state = RECORDING
    /\ journal.distance # None
    /\ state = RECORDING
    /\ rec_running
    /\ last_motion_t # None
    /\ debug_distance_mm = journal.distance

\* C35: while the controller is Recording, last_motion_t is set.
C35_RecordingHasTimer == state = RECORDING => last_motion_t # None

\* a recording whose stop is under way, and one that an event has extended
C35_Witness ==
    /\ state = RECORDING
    /\ pc_state = "stop_sleep"
    /\ last_motion_t # None
    /\ cam_bit = 1

\* C36: while the controller is Idle, last_motion_t is None, also after a
\* recorder start that failed.
C36_IdleHasNoTimer == state = IDLE => last_motion_t = None

\* C37: with vision motion disabled no Camera event is delivered and, from the
\* return of the recorder start on, nothing resets last_motion_t while
\* Recording: it only grows with time. A stop begins only on a timeout check
\* that read at least inactivity_seconds, and under fair scheduling every
\* recording ends, whatever the sensor does.
C37_VisionOffBounded ==
    /\ [][~vision_enabled
            => /\ ~(DeliveryStep /\ delivered'.source = "camera")
               /\ (state = RECORDING /\ state' = RECORDING)
                    => last_motion_t' \in {last_motion_t, Aged(last_motion_t, 1)}
               /\ (stop_check' # stop_check /\ stop_check' # None)
                    => (stop_check' = last_motion_t /\ stop_check' >= Inactivity)]_vars
    /\ (~vision_enabled /\ state = RECORDING) ~> (state = IDLE)

\* with vision disabled a recording has ended on the check that read exactly
\* the inactivity window, a Sensor event having been accepted within the window
C37_Witness ==
    /\ ~vision_enabled
    /\ state = IDLE
    /\ calls = FullCycle
    /\ stop_check = Inactivity
    /\ last_motion_event.source = "sensor"
    /\ last_motion_event.t < Inactivity
    /\ latest_motion_frame

\* C38: when the recorder is not running and neither start() nor stop() is under
\* way, it holds no camera, no rotation task and no transcoding process.
C38_NoResourceWhenStopped ==
    (~rec_running /\ pc_state = "sleep")
        => /\ picam2 = "none"
           /\ rotate_task = "none"
           /\ ~ffmpeg_proc

\* C39: the frame slot hands out no frame captured before the current start, and
\* a Camera event comes from comparing two frames captured since that start.
C39_NoCrossSession ==
    [][(vis_turn'.seq # vis_turn.seq /\ vis_turn'.frame # None)
        => /\ ~cam_call.slot_old
           /\ vis_turn'.event => ~cam_call.prev_old]_vars

\* C40: whatever ensure_free_space removes is a regular file with the mp4
\* extension that is an entry of output_dir itself, never a directory, a file
\* of another extension or a file in a subdirectory; and once a deletion has
\* failed the call removes nothing more.
C40_DeletionConfined ==
    /\ [][\A n \in FileIds :
            files'[n] # files[n]
                => /\ files[n].kind = "file"
                   /\ files[n].ext = "mp4"
                   /\ files'[n] = Absent]_vars
    /\ [][(sto_pc' = "gave_up" \/ sto_pc = "gave_up") => files' = files]_vars

\* a call has deleted the one segment of output_dir and ended still short of
\* space, with an mp4 file in a subdirectory untouched
C40_Witness ==
    /\ sto_pc = "returned"
    /\ warned
    /\ Len(deleted) > 0
    /\ free_mb < MinFreeMb
    /\ \E n \in FileIds : files[n].kind = "nested_file" /\ files[n].ext = "mp4"

====
